---- MODULE Spec2Model ----
(***************************************************************************)
(* Day 8 of advent2025 (advent2025-lib/src/day08.rs): the junction boxes   *)
(* are connected pair by pair in order of increasing integer distance,     *)
(* building a forest of JunctionBoxTree values (distance_matrix), either   *)
(* up to a maximum number of connections (distance_matrix_tree, part1) or  *)
(* until one tree holds every box (distance_matrix_last_connection,        *)
(* part2).                                                                 *)
(*                                                                         *)
(* Rust's pair[0] and pair[1] are pair[1] and pair[2] here; an entry of    *)
(* pairs_sorted_by_distance is <<distance, pair>>.  Option values are      *)
(* sequences: None is <<>> and Some(v) is <<v>>.                           *)
(***************************************************************************)
EXTENDS Integers, Sequences, FiniteSets, TLC

VARIABLES
    input,                     \* the text given to JunctionBoxes::from_str
    boxes,                     \* diagram.boxes
    connection_pairs_max,      \* Option<usize> argument of distance_matrix
    distance_matrix,           \* HashMap<[&JunctionBox; 2], usize>
    pairs_sorted_by_distance,  \* Vec<(usize, [&JunctionBox; 2])>
    pos,                       \* index of the next entry the for loop takes
    trees,                     \* Vec<JunctionBoxTree>
    count_connection_pairs,
    last_pair,                 \* Option<&[&JunctionBox; 2]>
    info_log,                  \* the log::info! messages of the loop
    answer,                    \* Option<usize>: PartOutput.answer of the caller
    pc                         \* position in distance_matrix and its caller

vars == <<input, boxes, connection_pairs_max, distance_matrix, pairs_sorted_by_distance, pos, trees,
          count_connection_pairs, last_pair, info_log, answer, pc>>

----------------------------------------------------------------------------
(* Bounds of the model. *)

MaxX == 4
MaxBoxes == 4
MaxCap == 3
MaxChain == 5
MaxRulerCap == 8
MaxFields == 4

None == <<>>
Some(v) == <<v>>

\* Two boxes off the x axis: with them some distances are rounded down by
\* isqrt (sqrt(10) to 3, sqrt(2) to 1), three boxes can be at one distance of
\* each other, and arrays are compared on their second and third element.
OffAxis == {<<0, 0, 1>>, <<0, 3, 0>>}

\* The JunctionBox([usize; 3]) values the diagrams are drawn from.
JunctionBox == {<<x, 0, 0>> : x \in 0..MaxX} \cup OffAxis

----------------------------------------------------------------------------
(* JunctionBox *)

abs_diff(a, b) == IF a < b THEN b - a ELSE a - b

\* usize::isqrt: the integer square root, rounded down.
isqrt(n) == CHOOSE d \in 0..n : d * d <= n /\ n < (d + 1) * (d + 1)

\* Variant: saturating_sub in place of abs_diff, so that a coordinate of self
\* below that of other counts as no difference.
saturating_sub(a, b) == IF a < b THEN 0 ELSE a - b

idistanceSaturating(self, other) ==
    isqrt(saturating_sub(self[1], other[1]) * saturating_sub(self[1], other[1])
        + saturating_sub(self[2], other[2]) * saturating_sub(self[2], other[2])
        + saturating_sub(self[3], other[3]) * saturating_sub(self[3], other[3]))

\* JunctionBox::idistance: sum of the squared coordinate differences, isqrt.
idistance(self, other) ==
    isqrt(abs_diff(self[1], other[1]) * abs_diff(self[1], other[1])
        + abs_diff(self[2], other[2]) * abs_diff(self[2], other[2])
        + abs_diff(self[3], other[3]) * abs_diff(self[3], other[3]))

\* first.0 < second.0: the lexicographic order of [usize; 3].
ArrayLess(a, b) ==
    \/ a[1] < b[1]
    \/ a[1] = b[1] /\ a[2] < b[2]
    \/ a[1] = b[1] /\ a[2] = b[2] /\ a[3] < b[3]

----------------------------------------------------------------------------
(* JunctionBoxTree: [root |-> JunctionBox, nodes |-> Seq(JunctionBoxTree)] *)

\* JunctionBoxTree::new
NewTreeOf(node) == [root |-> node, nodes |-> <<>>]

\* Variant: the root and the roots of the nodes compared, the nodes not
\* searched.
containsShallow(tree, node) ==
    \/ tree.root = node
    \/ \E k \in 1..Len(tree.nodes) : tree.nodes[k].root = node

RECURSIVE contains(_, _)
\* JunctionBoxTree::contains
contains(tree, node) ==
    \/ tree.root = node
    \/ \E k \in 1..Len(tree.nodes) : contains(tree.nodes[k], node)

RECURSIVE len(_)
RECURSIVE SumLen(_)
\* nodes.iter().map(|n| n.len()).sum()
SumLen(nodes) == IF nodes = <<>> THEN 0 ELSE len(Head(nodes)) + SumLen(Tail(nodes))
\* Variant: the root not counted.
lenWithoutRoot(tree) == SumLen(tree.nodes)

\* JunctionBoxTree::len
len(tree) == SumLen(tree.nodes) + 1

----------------------------------------------------------------------------
(* distance_matrix, lines 106-135: the map from pairs to distances and its sort *)

\* Variant: the pair as enumerated, [first, second] whatever their order.
CanonicalPairAsGiven(first, second) == <<first, second>>

\* The pair the closure builds for (first, second).
CanonicalPair(first, second) ==
    IF ArrayLess(first, second) THEN <<first, second>> ELSE <<second, first>>

\* Variant: no (first, second) filtered out.
ItemIndexesUnfiltered(bs) == (1..Len(bs)) \X (1..Len(bs))

\* The (first, second) the flat_map produces an item for, as indexes into the
\* boxes: those with first == second (equal coordinates) are filtered out.
ItemIndexes(bs) ==
    {ij \in (1..Len(bs)) \X (1..Len(bs)) : bs[ij[1]] # bs[ij[2]]}

\* The items with the key pair are those produced for pair[0] as first and
\* pair[1] as second, and for pair[1] as first and pair[0] as second.  first
\* runs over the boxes in the outer iteration, so the last item with the key
\* has as its first the box of the pair that stands last among the boxes.
FirstOfLastItem(bs, pair) ==
    bs[CHOOSE i \in 1..Len(bs) :
        /\ bs[i] \in {pair[1], pair[2]}
        /\ \A k \in (i + 1)..Len(bs) : bs[k] \notin {pair[1], pair[2]}]

\* collect::<HashMap<_, _>>() of the items (pair, first.idistance(second)): one
\* value for a key, that of the last item produced with the key.  The map is a
\* function from pairs to distances.
DistanceMatrix(bs) ==
    [pair \in {CanonicalPair(bs[ij[1]], bs[ij[2]]) : ij \in ItemIndexes(bs)} |->
        IF FirstOfLastItem(bs, pair) = pair[1]
        THEN idistance(pair[1], pair[2])
        ELSE idistance(pair[2], pair[1])]

\* The entries (distance, pair) of the map.
Entries(matrix) == {<<matrix[pair], pair>> : pair \in DOMAIN matrix}

\* Variant: the greater distance first.
DistanceGreater(e, f) == e[1] > f[1]

\* sort_by_key(|(distance, _)| *distance): the entries are ordered by distance
\* alone, e before f when its distance is less.
DistanceLess(e, f) == e[1] < f[1]

\* distance_matrix.iter() ... collect(), then sort_by_key(distance).  A HashMap
\* yields its entries in an unspecified order and sort_by_key is stable, so
\* entries of equal distance stay in the order the map yielded them: every such
\* order is a possible outcome.  SortedByKey is the set of the vectors the
\* sort can leave; sorted[left] is the set of those of the entries left, put
\* together from the entries before a middle entry, the entries of its
\* distance in any order, and the entries after it.
\* Variant: the vector as the map yields it, the sort left out.
IterationOrders(entries) ==
    LET orders[left \in SUBSET entries] ==
            IF left = {} THEN {<<>>}
            ELSE UNION {{<<e>> \o rest : rest \in orders[left \ {e}]} : e \in left}
    IN  orders[entries]

SortedByKey(entries) ==
    LET sorted[left \in SUBSET entries] ==
            IF left = {} THEN {<<>>}
            ELSE LET middle == CHOOSE m \in left :
                        /\ 2 * Cardinality({e \in left : DistanceLess(e, m)})
                                <= Cardinality(left)
                        /\ 2 * Cardinality({e \in left : DistanceLess(m, e)})
                                <= Cardinality(left)
                     before == {e \in left : DistanceLess(e, middle)}
                     after == {e \in left : DistanceLess(middle, e)}
                 IN  {head \o ties \o tail :
                        head \in sorted[before],
                        ties \in IterationOrders(left \ (before \cup after)),
                        tail \in sorted[after]}
    IN  sorted[entries]

----------------------------------------------------------------------------
(* distance_matrix, lines 139-208: the forest builder *)

\* trees.iter().position(|tree| tree.contains(node)); 0 stands for None.
Position(ts, node) ==
    IF \E k \in 1..Len(ts) : contains(ts[k], node)
    THEN CHOOSE k \in 1..Len(ts) :
            /\ contains(ts[k], node)
            /\ \A l \in 1..(k - 1) : ~contains(ts[l], node)
    ELSE 0

\* Variant: Vec::swap_remove, the last tree put in the place of the removed one.
SwapRemove(ts, k) ==
    [l \in 1..(Len(ts) - 1) |-> IF l = k THEN ts[Len(ts)] ELSE ts[l]]

\* Vec::remove
Remove(ts, k) == [l \in 1..(Len(ts) - 1) |-> IF l < k THEN ts[l] ELSE ts[l + 1]]

\* tree.nodes.push(child) on the tree at index k
PushChild(ts, k, child) ==
    [ts EXCEPT ![k] = [root |-> ts[k].root, nodes |-> Append(ts[k].nodes, child)]]

\* Lines 148-156: both nodes in the same tree.
SameTreeCase(ts, pair) ==
    /\ Position(ts, pair[1]) # 0
    /\ Position(ts, pair[2]) # 0
    /\ Position(ts, pair[1]) = Position(ts, pair[2])

\* Lines 157-171: both nodes in a tree, and not the same one.
MergeCase(ts, pair) ==
    /\ Position(ts, pair[1]) # 0
    /\ Position(ts, pair[2]) # 0
    /\ Position(ts, pair[1]) # Position(ts, pair[2])

\* Lines 173-176: not both in a tree, and pair[0] is in one.
FirstKnownCase(ts, pair) ==
    /\ Position(ts, pair[1]) # 0
    /\ Position(ts, pair[2]) = 0

\* Lines 177-180: not both in a tree, pair[0] in none, and pair[1] is in one.
SecondKnownCase(ts, pair) ==
    /\ Position(ts, pair[1]) = 0
    /\ Position(ts, pair[2]) # 0

\* Lines 183-194: none of the above, and no tree contains either node.
NeitherCase(ts, pair) ==
    /\ Position(ts, pair[1]) = 0
    /\ Position(ts, pair[2]) = 0
    /\ \A k \in 1..Len(ts) : ~contains(ts[k], pair[1]) /\ ~contains(ts[k], pair[2])

\* Lines 157-169: the second tree is removed from the vector, and pushed onto
\* the nodes of the first tree that then contains pair[0].
\* Variant: the second tree is pushed but not removed from the vector.
MergedKeepingSecond(ts, pair) ==
    PushChild(ts, Position(ts, pair[1]), ts[Position(ts, pair[2])])

\* Variant: the second tree is removed but not pushed.
MergedDroppingSecond(ts, pair) == Remove(ts, Position(ts, pair[2]))

\* Variant: the roles of the two trees exchanged.
MergedIntoSecond(ts, pair) ==
    LET first_tree == ts[Position(ts, pair[1])]
        removed == Remove(ts, Position(ts, pair[1]))
    IN  PushChild(removed, Position(removed, pair[2]), first_tree)

Merged(ts, pair) ==
    LET second_tree == ts[Position(ts, pair[2])]
        removed == Remove(ts, Position(ts, pair[2]))
    IN  PushChild(removed, Position(removed, pair[1]), second_tree)

\* Variant: the node pushed is the one the tree already contains.
FirstKnownPushingKnown(ts, pair) ==
    PushChild(ts, Position(ts, pair[1]), NewTreeOf(pair[1]))

\* Line 174
FirstKnown(ts, pair) == PushChild(ts, Position(ts, pair[1]), NewTreeOf(pair[2]))

\* Variant: the node pushed is the one the tree already contains.
SecondKnownPushingKnown(ts, pair) ==
    PushChild(ts, Position(ts, pair[2]), NewTreeOf(pair[2]))

\* Line 178
SecondKnown(ts, pair) == PushChild(ts, Position(ts, pair[2]), NewTreeOf(pair[1]))

\* Variant: pair[1] as the root and pair[0] as its node.
NeitherSwapped(ts, pair) ==
    Append(ts, [root |-> pair[2], nodes |-> <<NewTreeOf(pair[1])>>])

\* Variant: the push of lines 188-190 left out, and pair[1] taken as the root.
NeitherRootOnly(ts, pair) == Append(ts, NewTreeOf(pair[2]))

\* Lines 187-191
Neither(ts, pair) ==
    Append(ts, [root |-> pair[1], nodes |-> <<NewTreeOf(pair[2])>>])

\* The log::info! messages of lines 149-153, 162-168, 175/179 and 192: the
\* format string and its arguments.
SameTreeMessage(pair) ==
    <<"Nodes {} and {} are already in the same tree.", pair[1], pair[2]>>

MergingMessage(ts, pair) ==
    <<"Merging trees {}({}) and {}({}).",
      ts[Position(ts, pair[1])].root, pair[1],
      ts[Position(ts, pair[2])].root, pair[2]>>

AddingMessage(node, known) == <<"Adding {} to tree {}.", node, known>>

CreatingMessage(pair) == <<"Creating new tree with {} and {}.", pair[1], pair[2]>>

\* Variant: the count compared one connection early.
MaxReachedEarly(max, count) == max # None /\ count + 1 >= max[1]

\* Lines 195-197: the maximum is given and the count has reached it.
MaxReached(max, count) == max # None /\ count >= max[1]

\* Variant: > in place of >=.
AllConnectedStrict(ts, bs) == (IF ts = <<>> THEN 0 ELSE len(ts[1])) > Len(bs)

\* Line 201: trees.first().map(|t| t.len()).unwrap_or_default() >= boxes.len()
AllConnected(ts, bs) == (IF ts = <<>> THEN 0 ELSE len(ts[1])) >= Len(bs)

\* Variant: the break of line 204 left out.
StoppingChecksWithoutBreak(ts, count, pair, logged) ==
    IF MaxReached(connection_pairs_max, count)
    THEN /\ info_log' = Append(logged, <<"Max connection pairs reached.">>)
         /\ last_pair' = last_pair
         /\ pc' = "break"
    ELSE IF AllConnected(ts, boxes)
    THEN /\ info_log' = Append(logged, <<"All boxes connected.">>)
         /\ last_pair' = Some(pair)
         /\ pc' = "loop"
    ELSE /\ info_log' = logged
         /\ last_pair' = last_pair
         /\ pc' = "loop"

\* Variant: line 201 reached in a call without a maximum only.
StoppingChecksExhaustiveOnly(ts, count, pair, logged) ==
    IF MaxReached(connection_pairs_max, count)
    THEN /\ info_log' = Append(logged, <<"Max connection pairs reached.">>)
         /\ last_pair' = last_pair
         /\ pc' = "break"
    ELSE IF connection_pairs_max = None /\ AllConnected(ts, boxes)
    THEN /\ info_log' = Append(logged, <<"All boxes connected.">>)
         /\ last_pair' = Some(pair)
         /\ pc' = "break"
    ELSE /\ info_log' = logged
         /\ last_pair' = last_pair
         /\ pc' = "loop"

\* Lines 195-205, reached at the end of every iteration that did not continue.
\* logged is the log with the message of the branch taken.
StoppingChecks(ts, count, pair, logged) ==
    IF MaxReached(connection_pairs_max, count)
    THEN /\ info_log' = Append(logged, <<"Max connection pairs reached.">>)
         /\ last_pair' = last_pair
         /\ pc' = "break"
    ELSE IF AllConnected(ts, boxes)
    THEN /\ info_log' = Append(logged, <<"All boxes connected.">>)
         /\ last_pair' = Some(pair)
         /\ pc' = "break"
    ELSE /\ info_log' = logged
         /\ last_pair' = last_pair
         /\ pc' = "loop"

\* trees.sort_by_key(|t| usize::MAX - t.len()): a stable sort, larger trees
\* first (usize::MAX - a.len() < usize::MAX - b.len() exactly when
\* a.len() > b.len(), a len never exceeding usize::MAX).

\* Variant: the key t.len() in place of usize::MAX - t.len().
KeyLessAscending(a, b) == len(a) < len(b)

KeyLess(a, b) == len(a) > len(b)

\* t is put behind every tree whose key is not greater than its own.
RECURSIVE InsertByKey(_, _)
InsertByKey(sorted, t) ==
    IF sorted = <<>> THEN <<t>>
    ELSE IF KeyLess(t, Head(sorted)) THEN <<t>> \o sorted
    ELSE <<Head(sorted)>> \o InsertByKey(Tail(sorted), t)

RECURSIVE SortFrom(_, _)
SortFrom(sorted, rest) ==
    IF rest = <<>> THEN sorted
    ELSE SortFrom(InsertByKey(sorted, Head(rest)), Tail(rest))

SortByKey(ts) == SortFrom(<<>>, ts)

----------------------------------------------------------------------------
(* FromStr for JunctionBox and JunctionBoxes, lines 31-45 and 68-79.  A text is
   the sequence of its lines (str::lines), a line the sequence of its fields
   (split(',')): the empty line is one empty field.  A field is the sequence
   of its characters. *)

Ok(v) == <<"Ok", v>>
Err(e) == <<"Err", e>>
Panicked == <<"Panic">>

Digits == <<"0", "1", "2", "3", "4", "5", "6", "7", "8", "9">>

IsDigit(c) == \E n \in 1..10 : Digits[n] = c

DigitValue(c) == (CHOOSE n \in 1..10 : Digits[n] = c) - 1

\* The value of a sequence of digits in base 10.
RECURSIVE Base10(_)
Base10(digits) ==
    IF digits = <<>> THEN 0
    ELSE 10 * Base10(SubSeq(digits, 1, Len(digits) - 1))
            + DigitValue(digits[Len(digits)])

\* pos.parse::<usize>(): an optional "+" and one or more digits, or a
\* ParseIntError.  (A value above usize::MAX is an error as well; the fields
\* of the model are far below it.)
ParseUsize(field) ==
    LET digits == IF field # <<>> /\ Head(field) = "+" THEN Tail(field) ELSE field
    IN  IF field = <<>> THEN Err("Empty")
        ELSE IF digits = <<>> THEN Err("InvalidDigit")
        ELSE IF \A k \in 1..Len(digits) : IsDigit(digits[k])
        THEN Ok(Base10(digits))
        ELSE Err("InvalidDigit")

\* collect::<Result<_, _>>(): the first error, or the vector of the values.
RECURSIVE Collect(_)
Collect(results) ==
    IF results = <<>> THEN Ok(<<>>)
    ELSE IF Head(results)[1] # "Ok" THEN Head(results)
    ELSE LET rest == Collect(Tail(results))
         IN  IF rest[1] # "Ok" THEN rest ELSE Ok(<<Head(results)[2]>> \o rest[2])

\* JunctionBox::from_str: every field is parsed, a ParseIntError returned;
\* coordinates[0], [1] and [2] are taken, and an index past the end panics.
JunctionBoxFromStr(line) ==
    LET coordinates == Collect([k \in 1..Len(line) |-> ParseUsize(line[k])])
    IN  IF coordinates[1] # "Ok" THEN coordinates
        ELSE IF Len(coordinates[2]) < 3 THEN Panicked
        ELSE Ok(<<coordinates[2][1], coordinates[2][2], coordinates[2][3]>>)

\* JunctionBoxes::from_str: the lines are parsed in turn; the first line that
\* is an error or panics ends the parse.
JunctionBoxesFromStr(text) ==
    Collect([k \in 1..Len(text) |-> JunctionBoxFromStr(text[k])])

\* The fields of the model: empty, a number, a negative number, no number.
FieldTexts == {<<>>, <<"7">>, <<"-", "7">>, <<"x">>}

\* The lines of one to MaxFields fields, and the texts of up to two of the
\* lines ls.
Lines == UNION {[1..n -> FieldTexts] : n \in 1..MaxFields}

Texts(ls) == {<<>>} \cup {<<l>> : l \in ls} \cup {<<l, m>> : l, m \in ls}

----------------------------------------------------------------------------
(* Diagrams *)

\* a <= b in the order of ArrayLess
ArrayLeq(a, b) == a = b \/ ArrayLess(a, b)

\* The diagrams of the model: up to MaxBoxes boxes, a box possibly more than
\* once.  The parser keeps the lines in input order; the builder reads the
\* list through the map of canonical pairs and through its length only, so
\* the lists are taken in the order of ArrayLess.
Diagrams ==
    UNION {{bs \in [1..n -> JunctionBox] :
                \A k \in 1..(n - 1) : ArrayLeq(bs[k], bs[k + 1])} :
           n \in 0..MaxBoxes}

Maxima == {None} \cup {Some(m) : m \in 0..MaxCap}

----------------------------------------------------------------------------
(* The state machine.  The runs of distance_matrix start from a diagram; the
   text it was parsed from is no part of them, and input stays empty. *)

Init ==
    /\ input = <<>>
    /\ boxes \in Diagrams
    /\ connection_pairs_max \in Maxima
    /\ distance_matrix = <<>>
    /\ pairs_sorted_by_distance = <<>>
    /\ pos = 1
    /\ trees = <<>>
    /\ count_connection_pairs = 0
    /\ last_pair = None
    /\ info_log = <<>>
    /\ answer = None
    /\ pc = "entry"

\* Lines 106-127
BuildMatrix ==
    /\ pc = "entry"
    /\ distance_matrix' = DistanceMatrix(boxes)
    /\ pc' = "sort"
    /\ UNCHANGED <<input, boxes, connection_pairs_max, pairs_sorted_by_distance, pos, trees,
                   count_connection_pairs, last_pair, info_log, answer>>

\* Lines 128-141
SortPairs ==
    /\ pc = "sort"
    /\ pairs_sorted_by_distance' \in SortedByKey(Entries(distance_matrix))
    /\ pos' = 1
    /\ trees' = <<>>
    /\ count_connection_pairs' = 0
    /\ last_pair' = None
    /\ pc' = "loop"
    /\ UNCHANGED <<input, boxes, connection_pairs_max, distance_matrix, info_log, answer>>

InLoop == pc = "loop" /\ pos <= Len(pairs_sorted_by_distance)

CurrentPair == pairs_sorted_by_distance[pos][2]

\* Variant: the edge of line 154 not counted.
SameTreeUncounted ==
    /\ InLoop
    /\ SameTreeCase(trees, CurrentPair)
    /\ pos' = pos + 1
    /\ info_log' = Append(info_log, SameTreeMessage(CurrentPair))
    /\ UNCHANGED <<input, boxes, connection_pairs_max, distance_matrix,
                   pairs_sorted_by_distance, trees,
                   count_connection_pairs, last_pair, answer, pc>>

\* Lines 148-156: count and continue; the checks of lines 195-205 are skipped.
SameTree ==
    /\ InLoop
    /\ SameTreeCase(trees, CurrentPair)
    /\ count_connection_pairs' = count_connection_pairs + 1
    /\ pos' = pos + 1
    /\ info_log' = Append(info_log, SameTreeMessage(CurrentPair))
    /\ UNCHANGED <<input, boxes, connection_pairs_max, distance_matrix,
                   pairs_sorted_by_distance, trees,
                   last_pair, answer, pc>>

\* Variant: the edge of line 170 not counted.
MergeTreesUncounted ==
    /\ InLoop
    /\ MergeCase(trees, CurrentPair)
    /\ trees' = Merged(trees, CurrentPair)
    /\ count_connection_pairs' = count_connection_pairs
    /\ pos' = pos + 1
    /\ StoppingChecks(trees', count_connection_pairs', CurrentPair,
                      Append(info_log, MergingMessage(trees, CurrentPair)))
    /\ UNCHANGED <<input, boxes, connection_pairs_max, distance_matrix,
                   pairs_sorted_by_distance, answer>>

\* Lines 157-171, then 195-205
MergeTrees ==
    /\ InLoop
    /\ MergeCase(trees, CurrentPair)
    /\ trees' = Merged(trees, CurrentPair)
    /\ count_connection_pairs' = count_connection_pairs + 1
    /\ pos' = pos + 1
    /\ StoppingChecks(trees', count_connection_pairs', CurrentPair,
                      Append(info_log, MergingMessage(trees, CurrentPair)))
    /\ UNCHANGED <<input, boxes, connection_pairs_max, distance_matrix,
                   pairs_sorted_by_distance, answer>>

\* Lines 173-176, then 195-205
AddSecond ==
    /\ InLoop
    /\ FirstKnownCase(trees, CurrentPair)
    /\ trees' = FirstKnown(trees, CurrentPair)
    /\ count_connection_pairs' = count_connection_pairs + 1
    /\ pos' = pos + 1
    /\ StoppingChecks(trees', count_connection_pairs', CurrentPair,
                      Append(info_log, AddingMessage(CurrentPair[2], CurrentPair[1])))
    /\ UNCHANGED <<input, boxes, connection_pairs_max, distance_matrix,
                   pairs_sorted_by_distance, answer>>

\* Lines 177-180, then 195-205
AddFirst ==
    /\ InLoop
    /\ SecondKnownCase(trees, CurrentPair)
    /\ trees' = SecondKnown(trees, CurrentPair)
    /\ count_connection_pairs' = count_connection_pairs + 1
    /\ pos' = pos + 1
    /\ StoppingChecks(trees', count_connection_pairs', CurrentPair,
                      Append(info_log, AddingMessage(CurrentPair[1], CurrentPair[2])))
    /\ UNCHANGED <<input, boxes, connection_pairs_max, distance_matrix,
                   pairs_sorted_by_distance, answer>>

\* Lines 183-194, then 195-205
CreateTree ==
    /\ InLoop
    /\ NeitherCase(trees, CurrentPair)
    /\ trees' = Neither(trees, CurrentPair)
    /\ count_connection_pairs' = count_connection_pairs + 1
    /\ pos' = pos + 1
    /\ StoppingChecks(trees', count_connection_pairs', CurrentPair,
                      Append(info_log, CreatingMessage(CurrentPair)))
    /\ UNCHANGED <<input, boxes, connection_pairs_max, distance_matrix,
                   pairs_sorted_by_distance, answer>>

\* Lines 207-208: after a break or after the last entry, the trees are sorted
\* and returned.
Return ==
    /\ \/ pc = "break"
       \/ pc = "loop" /\ pos > Len(pairs_sorted_by_distance)
    /\ trees' = SortByKey(trees)
    /\ pc' = "returned"
    /\ UNCHANGED <<input, boxes, connection_pairs_max, distance_matrix,
                   pairs_sorted_by_distance, pos,
                   count_connection_pairs, last_pair, info_log, answer>>

\* Variant: the product started from 0, as if a missing tree had len 0.
RECURSIVE ProductFromZero(_)
ProductFromZero(ts) ==
    IF ts = <<>> THEN 0 ELSE len(Head(ts)) * ProductFromZero(Tail(ts))

\* trees.iter().take(3).map(|t| t.len()).product()
RECURSIVE ProductOfLens(_)
ProductOfLens(ts) ==
    IF ts = <<>> THEN 1 ELSE len(Head(ts)) * ProductOfLens(Tail(ts))

Take(ts, n) == SubSeq(ts, 1, IF Len(ts) < n THEN Len(ts) ELSE n)

\* distance_matrix_tree (lines 211-216) and the product of part1 and of
\* tests::test_example_part1 (lines 235, 282).
TreeCaller ==
    /\ pc = "returned"
    /\ connection_pairs_max # None
    /\ answer' = Some(ProductOfLens(Take(trees, 3)))
    /\ pc' = "done"
    /\ UNCHANGED <<input, boxes, connection_pairs_max, distance_matrix,
                   pairs_sorted_by_distance, pos, trees,
                   count_connection_pairs, last_pair, info_log>>

\* distance_matrix_last_connection (lines 218-230) and part2 (lines 239-251):
\* assert_eq!(trees.len(), 1) and pair.unwrap() panic when they fail.
LastConnectionCaller ==
    /\ pc = "returned"
    /\ connection_pairs_max = None
    /\ IF Len(trees) # 1 \/ last_pair = None
       THEN /\ pc' = "panic"
            /\ answer' = answer
       ELSE /\ pc' = "done"
            /\ answer' = Some(last_pair[1][1][1] * last_pair[1][2][1])
    /\ UNCHANGED <<input, boxes, connection_pairs_max, distance_matrix,
                   pairs_sorted_by_distance, pos, trees,
                   count_connection_pairs, last_pair, info_log>>

Next ==
    \/ BuildMatrix
    \/ SortPairs
    \/ SameTree
    \/ MergeTrees
    \/ AddSecond
    \/ AddFirst
    \/ CreateTree
    \/ Return
    \/ TreeCaller
    \/ LastConnectionCaller

Spec == Init /\ [][Next]_vars

\* distance_matrix_last_connection: distance_matrix called without a maximum.
\* The call runs to its end: a step that can be taken is taken.
LastConnectionInit == Init /\ connection_pairs_max = None

LastConnectionNext ==
    \/ BuildMatrix
    \/ SortPairs
    \/ SameTree
    \/ MergeTrees
    \/ AddSecond
    \/ AddFirst
    \/ CreateTree
    \/ Return
    \/ LastConnectionCaller

LastConnectionSpec ==
    LastConnectionInit /\ [][LastConnectionNext]_vars /\ WF_vars(LastConnectionNext)

\* The map and the sorted vector alone, over the diagrams in every order of
\* their lines: the lists of up to MaxBoxes boxes, sorted or not.
Lists == UNION {[1..n -> JunctionBox] : n \in 0..MaxBoxes}

MatrixInit ==
    /\ input = <<>>
    /\ boxes \in Lists
    /\ connection_pairs_max = None
    /\ distance_matrix = <<>>
    /\ pairs_sorted_by_distance = <<>>
    /\ pos = 1
    /\ trees = <<>>
    /\ count_connection_pairs = 0
    /\ last_pair = None
    /\ info_log = <<>>
    /\ answer = None
    /\ pc = "entry"

MatrixNext ==
    \/ BuildMatrix
    \/ SortPairs

MatrixSpec == MatrixInit /\ [][MatrixNext]_vars

\* The parse of a text, DAY.calc.parse: what it returns is the diagram given
\* to part1 and part2; an error or a panic ends the program before them.
ParseInit ==
    /\ input \in Texts(Lines)
    /\ boxes = <<>>
    /\ connection_pairs_max = None
    /\ distance_matrix = <<>>
    /\ pairs_sorted_by_distance = <<>>
    /\ pos = 1
    /\ trees = <<>>
    /\ count_connection_pairs = 0
    /\ last_pair = None
    /\ info_log = <<>>
    /\ answer = None
    /\ pc = "parse"

Parse ==
    /\ pc = "parse"
    /\ LET parsed == JunctionBoxesFromStr(input)
       IN  IF parsed[1] = "Ok" THEN boxes' = parsed[2] /\ pc' = "entry"
           ELSE IF parsed[1] = "Err" THEN boxes' = boxes /\ pc' = "parse_error"
           ELSE boxes' = boxes /\ pc' = "panic"
    /\ UNCHANGED <<input, connection_pairs_max, distance_matrix,
                   pairs_sorted_by_distance, pos, trees,
                   count_connection_pairs, last_pair, info_log, answer>>

ParseSpec == ParseInit /\ [][Parse]_vars

\* Further diagrams beside those of Diagrams.  A chain: n boxes on the
\* x axis with the gaps 1, 2, 3, ... between neighbours (0, 1, 3, 6, 10, ...),
\* given to distance_matrix_tree with the maximum n - 1.  And the three boxes
\* 0,0,0 / 1,0,0 / 0,3,0 in this order of lines, given to
\* distance_matrix_last_connection.
ChainBox(k) == <<(k * (k + 1)) \div 2, 0, 0>>

Chain(n) == [k \in 1..n |-> ChainBox(k - 1)]

ScenarioA == <<<<0, 0, 0>>, <<1, 0, 0>>, <<0, 3, 0>>>>

\* A diagram of ten boxes on the x axis of which no two pairs have the same
\* distance, so that the sort leaves one vector: the run creates four trees,
\* adds boxes to them and merges them, three other trees standing by.
RulerMarks == <<0, 3, 16, 21, 28, 48, 52, 54, 62, 63>>

Ruler == [k \in 1..Len(RulerMarks) |-> <<RulerMarks[k], 0, 0>>]

RulerMaxima == {None} \cup {Some(m) : m \in 0..MaxRulerCap}

ScenarioInit ==
    /\ input = <<>>
    /\ \/ boxes \in Diagrams /\ connection_pairs_max \in Maxima
       \/ \E n \in 1..MaxChain : boxes = Chain(n) /\ connection_pairs_max = Some(n - 1)
       \/ boxes = ScenarioA /\ connection_pairs_max = None
       \/ boxes = Ruler /\ connection_pairs_max \in RulerMaxima
    /\ distance_matrix = <<>>
    /\ pairs_sorted_by_distance = <<>>
    /\ pos = 1
    /\ trees = <<>>
    /\ count_connection_pairs = 0
    /\ last_pair = None
    /\ info_log = <<>>
    /\ answer = None
    /\ pc = "entry"

ScenarioSpec == ScenarioInit /\ [][Next]_vars

----------------------------------------------------------------------------
(* Properties *)

\* The boxes of a tree, the root first and then each node's boxes in turn:
\* read from the structure, without contains and len.
RECURSIVE TreeBoxes(_)
RECURSIVE NodesBoxes(_)
NodesBoxes(nodes) ==
    IF nodes = <<>> THEN <<>> ELSE TreeBoxes(Head(nodes)) \o NodesBoxes(Tail(nodes))
TreeBoxes(tree) == <<tree.root>> \o NodesBoxes(tree.nodes)

\* The boxes of the forest, tree after tree.
ForestBoxes(ts) == NodesBoxes(ts)

NoDuplicates(s) == \A i, j \in 1..Len(s) : i # j => s[i] # s[j]

Range(s) == {s[k] : k \in 1..Len(s)}

\* The entries the loop has taken so far.
Processed == SubSeq(pairs_sorted_by_distance, 1, pos - 1)

\* The boxes that are an endpoint of an entry taken so far.
ProcessedBoxes == UNION {{e[2][1], e[2][2]} : e \in Range(Processed)}

LastMessage == info_log[Len(info_log)]

Logged(format) == \E k \in 1..Len(info_log) : info_log[k][1] = format

\* C1. Partition invariant: in every state of distance_matrix and of its
\* callers, with or without a maximum, no box occurs twice in the forest, not
\* in two trees and not twice in one tree, and no box is contained in two trees.
C1_PartitionInvariant ==
    /\ NoDuplicates(ForestBoxes(trees))
    /\ \A b \in JunctionBox :
        Cardinality({k \in 1..Len(trees) : contains(trees[k], b)}) <= 1

\* Two trees of two boxes each stand side by side in the loop.
C1_Witness ==
    /\ pc = "loop"
    /\ Len(trees) = 2
    /\ Len(ForestBoxes(trees)) = 4

\* C2. Bounded mode halts when the count is reached: with a maximum m >= 1,
\* the number of accepted connections never exceeds m.
C2_CountWithinMaximum ==
    (connection_pairs_max # None /\ connection_pairs_max[1] >= 1)
        => count_connection_pairs <= connection_pairs_max[1]

\* The boxes are pairwise distinct.
Distinct(bs) == NoDuplicates(bs)

\* One tree, and every box of the diagram in it.
Spanning(ts, bs) ==
    /\ Len(ts) = 1
    /\ \A k \in 1..Len(bs) : contains(ts[1], bs[k])

\* C3. Exhaustive termination: a call without a maximum over two or more
\* pairwise distinct boxes comes to its end, distance_matrix_last_connection
\* and part2 returning without a panic, with exactly one tree, of as many boxes
\* as the diagram has, containing every box, and with a completing pair.
C3_ExhaustiveTermination ==
    (pc = "entry" /\ connection_pairs_max = None /\ Len(boxes) >= 2 /\ Distinct(boxes))
        ~> (/\ pc = "done"
              /\ Len(trees) = 1
              /\ len(trees[1]) = Len(boxes)
              /\ Len(TreeBoxes(trees[1])) = Len(boxes)
              /\ Spanning(trees, boxes)
              /\ last_pair # None)

\* An exhaustive run over four distinct boxes has ended in one tree, two trees
\* having been merged on the way.
C3_Witness ==
    /\ pc = "done"
    /\ connection_pairs_max = None
    /\ Len(boxes) = 4
    /\ Distinct(boxes)
    /\ Spanning(trees, boxes)
    /\ Logged("Merging trees {}({}) and {}({}).")

\* C4. Completing edge: the pair recorded in last_pair is the pair of the last
\* entry taken and no entry is taken after it; the step that records it changes
\* a forest that did not span the diagram into one tree that does; and part2
\* answers the product of the first coordinates of its two boxes.
C4_CompletingEdge ==
    /\ [](last_pair # None =>
            /\ pos > 1
            /\ last_pair[1] = pairs_sorted_by_distance[pos - 1][2]
            /\ pc # "loop")
    /\ []((pc = "done" /\ connection_pairs_max = None) =>
            /\ last_pair # None
            /\ answer = Some(last_pair[1][1][1] * last_pair[1][2][1]))
    /\ [][last_pair' # last_pair =>
            /\ InLoop
            /\ last_pair' = Some(CurrentPair)
            /\ pos' = pos + 1
            /\ ~Spanning(trees, boxes)
            /\ trees' # trees
            /\ Spanning(trees', boxes)
            /\ LastMessage' = <<"All boxes connected.">>
            /\ info_log'[Len(info_log') - 1][1] #
                    "Nodes {} and {} are already in the same tree."]_vars

\* part2 has answered a product that is not 0, after a run in which an entry
\* was taken whose boxes were already in one tree.
C4_Witness ==
    /\ pc = "done"
    /\ connection_pairs_max = None
    /\ answer # None
    /\ answer[1] > 0
    /\ Logged("Nodes {} and {} are already in the same tree.")

\* C5. Size conservation: the lens of the trees add up to the number of
\* distinct boxes that are an endpoint of an entry taken so far.
C5_SizeConservation == SumLen(trees) = Cardinality(ProcessedBoxes)

\* Three entries have been taken and the forest holds three boxes: one of the
\* entries joined two boxes of one tree.
C5_Witness ==
    /\ pos = 4
    /\ SumLen(trees) = 3
    /\ Cardinality(ProcessedBoxes) = 3

\* Some tree contains both boxes of the pair.
InOneTree(ts, pair) ==
    \E k \in 1..Len(ts) : contains(ts[k], pair[1]) /\ contains(ts[k], pair[2])

\* Some tree contains the box.
InSomeTree(ts, b) == \E k \in 1..Len(ts) : contains(ts[k], b)

\* C6. Same-tree edge: a step of the loop that takes a pair whose boxes are in
\* one tree leaves the vector of trees as it is and adds 1 to the count.
C6_SameTreeEdge ==
    [][(InLoop /\ InOneTree(trees, CurrentPair)) =>
            /\ trees' = trees
            /\ count_connection_pairs' = count_connection_pairs + 1]_vars

\* The last entry taken joined two boxes of one tree.
C6_Witness ==
    /\ info_log # <<>>
    /\ LastMessage[1] = "Nodes {} and {} are already in the same tree."

\* C7. Merge of two trees: a step that takes a pair with pair[0] in tree i and
\* pair[1] in another tree j leaves one tree less; the tree j is no element of
\* the vector any more; the tree i has its root and its nodes, and the tree j,
\* unchanged, as its new last node; its len is the sum of the two lens; and the
\* count grows by 1.
C7_MergeOfTwoTrees ==
    [][InLoop => \A i, j \in 1..Len(trees) :
        (/\ i # j
         /\ contains(trees[i], CurrentPair[1])
         /\ contains(trees[j], CurrentPair[2])) =>
            /\ Len(trees') = Len(trees) - 1
            /\ \A k \in 1..Len(trees') : trees'[k] # trees[j]
            /\ \E k \in 1..Len(trees') :
                /\ trees'[k].root = trees[i].root
                /\ trees'[k].nodes = Append(trees[i].nodes, trees[j])
                /\ len(trees'[k]) = len(trees[i]) + len(trees[j])
                /\ Len(TreeBoxes(trees'[k])) =
                        Len(TreeBoxes(trees[i])) + Len(TreeBoxes(trees[j]))
            /\ count_connection_pairs' = count_connection_pairs + 1]_vars

\* Two trees have been created and then merged, the tree created first, which
\* stands first in the vector, being the one removed and pushed.
C7_Witness ==
    /\ Len(info_log) >= 3
    /\ info_log[1][1] = "Creating new tree with {} and {}."
    /\ info_log[2][1] = "Creating new tree with {} and {}."
    /\ info_log[3][1] = "Merging trees {}({}) and {}({})."
    /\ info_log[3][2] = info_log[2][2]
    /\ info_log[3][4] = info_log[1][2]

\* C8. Graft of a new box: a step that takes a pair of which one box is in
\* tree k and the other in no tree gives tree k the other box as a new last
\* node without nodes of its own; the tree keeps its root and its other nodes,
\* its len grows by 1, the number of trees stays, and the count grows by 1.
C8_GraftOfNewBox ==
    [][InLoop => \A k \in 1..Len(trees) : \A known, other \in Range(CurrentPair) :
        (/\ known # other
         /\ contains(trees[k], known)
         /\ ~InSomeTree(trees, other)) =>
            /\ Len(trees') = Len(trees)
            /\ trees'[k].root = trees[k].root
            /\ trees'[k].nodes =
                    Append(trees[k].nodes, [root |-> other, nodes |-> <<>>])
            /\ len(trees'[k]) = len(trees[k]) + 1
            /\ Len(TreeBoxes(trees'[k])) = Len(TreeBoxes(trees[k])) + 1
            /\ count_connection_pairs' = count_connection_pairs + 1]_vars

\* One run has grafted pair[1] onto the tree of pair[0] and pair[0] onto the
\* tree of pair[1].
C8_Witness ==
    /\ \E k \in 1..Len(info_log) :
        /\ info_log[k][1] = "Adding {} to tree {}."
        /\ ArrayLess(info_log[k][2], info_log[k][3])
    /\ \E k \in 1..Len(info_log) :
        /\ info_log[k][1] = "Adding {} to tree {}."
        /\ ArrayLess(info_log[k][3], info_log[k][2])

\* C9. New tree: a step that takes a pair of which no box is in a tree appends
\* one tree, with pair[0] as its root and pair[1], without nodes, as its only
\* node; its len is 2; the trees before it stay as they are; and the count
\* grows by 1.
C9_NewTree ==
    [][(/\ InLoop
        /\ ~InSomeTree(trees, CurrentPair[1])
        /\ ~InSomeTree(trees, CurrentPair[2])) =>
            /\ Len(trees') = Len(trees) + 1
            /\ \A k \in 1..Len(trees) : trees'[k] = trees[k]
            /\ trees'[Len(trees')].root = CurrentPair[1]
            /\ trees'[Len(trees')].nodes =
                    <<[root |-> CurrentPair[2], nodes |-> <<>>]>>
            /\ len(trees'[Len(trees')]) = 2
            /\ count_connection_pairs' = count_connection_pairs + 1]_vars

\* A second tree has just been created behind a first one.
C9_Witness ==
    /\ pc = "loop"
    /\ Len(trees) = 2
    /\ info_log # <<>>
    /\ LastMessage[1] = "Creating new tree with {} and {}."

\* C10. Order invariant: pairs_sorted_by_distance is non-decreasing in
\* distance, so that no entry is taken before one of smaller distance.
C10_OrderInvariant ==
    \A i, j \in 1..Len(pairs_sorted_by_distance) :
        i < j => pairs_sorted_by_distance[i][1] <= pairs_sorted_by_distance[j][1]

\* The vector holds entries of different distances and two of one distance,
\* and the loop has taken entries of two distances.
C10_Witness ==
    /\ pos > 2
    /\ Processed[1][1] < Processed[pos - 1][1]
    /\ \E i, j \in 1..Len(pairs_sorted_by_distance) :
        /\ i # j
        /\ pairs_sorted_by_distance[i][1] = pairs_sorted_by_distance[j][1]

\* C11. Reproducible edge order: a second run of lines 106-135 on the same
\* boxes leaves the vector this run holds, entries of equal distance in the
\* same order: the vector is the only one the map and the sort can leave.
C11_ReproducibleEdgeOrder ==
    (pc = "loop" /\ pos = 1) =>
        \A other \in SortedByKey(Entries(distance_matrix)) :
            other = pairs_sorted_by_distance

\* The sum over the three axes of the squared coordinate difference.
SquaredDistance(a, b) ==
    (a[1] - b[1]) * (a[1] - b[1])
        + (a[2] - b[2]) * (a[2] - b[2])
        + (a[3] - b[3]) * (a[3] - b[3])

\* C12. Exact integer distance: for all boxes a, b of the diagram, with S the
\* sum of the squared coordinate differences, idistance(a, b) is the one
\* integer d with d * d <= S < (d + 1) * (d + 1), and idistance(b, a) is the
\* same; the map, once built, holds that value for a pair, whichever of
\* (first, second) and (second, first) was the last to write it.
C12_ExactIntegerDistance ==
    /\ pc = "entry" =>
        \A a, b \in Range(boxes) :
            LET S == SquaredDistance(a, b)
                d == idistance(a, b)
            IN  /\ d \in 0..S
                /\ d * d <= S
                /\ S < (d + 1) * (d + 1)
                /\ \A e \in 0..S : (e * e <= S /\ S < (e + 1) * (e + 1)) => e = d
                /\ idistance(b, a) = d
    /\ pc = "sort" =>
        \A pair \in DOMAIN distance_matrix :
            /\ distance_matrix[pair] = idistance(pair[1], pair[2])
            /\ distance_matrix[pair] = idistance(pair[2], pair[1])

\* The map holds a distance that isqrt rounded down, written last for pair[0]
\* as first, and a distance written last for pair[1] as first.
C12_Witness ==
    /\ pc = "sort"
    /\ \E pair \in DOMAIN distance_matrix :
        /\ FirstOfLastItem(boxes, pair) = pair[1]
        /\ distance_matrix[pair] * distance_matrix[pair]
                < SquaredDistance(pair[1], pair[2])
    /\ \E pair \in DOMAIN distance_matrix :
        FirstOfLastItem(boxes, pair) = pair[2]

\* C13. Complete, deduplicated pair index: for n pairwise distinct boxes, in
\* whatever order the diagram lists them, the map has n * (n - 1) / 2 entries,
\* one for every two different boxes, under the pair that has the smaller array
\* first and not under the other; it is the map from these pairs to their
\* distances, which the set of the boxes determines; and the sorted vector,
\* once it is made of the map, holds each entry of the map once.
C13_CompletePairIndex ==
    /\ (pc = "sort" /\ Distinct(boxes)) =>
        /\ 2 * Cardinality(DOMAIN distance_matrix) = Len(boxes) * (Len(boxes) - 1)
        /\ \A i, j \in 1..Len(boxes) : i # j =>
            (<<boxes[i], boxes[j]>> \in DOMAIN distance_matrix)
                # (<<boxes[j], boxes[i]>> \in DOMAIN distance_matrix)
        /\ \A pair \in DOMAIN distance_matrix : ArrayLess(pair[1], pair[2])
        /\ distance_matrix =
            [pair \in {ab \in Range(boxes) \X Range(boxes) : ArrayLess(ab[1], ab[2])} |->
                idistance(pair[1], pair[2])]
    /\ (pc = "loop" /\ Distinct(boxes)) =>
        /\ 2 * Len(pairs_sorted_by_distance) = Len(boxes) * (Len(boxes) - 1)
        /\ NoDuplicates(pairs_sorted_by_distance)
        /\ Range(pairs_sorted_by_distance) = Entries(distance_matrix)

\* Four different boxes, not listed in the order of their arrays, have a
\* sorted vector of six entries.
C13_Witness ==
    /\ pc = "loop"
    /\ Len(boxes) = 4
    /\ Distinct(boxes)
    /\ \E k \in 1..3 : ArrayLess(boxes[k + 1], boxes[k])
    /\ Len(pairs_sorted_by_distance) = 6

\* C14. Duplicate points produce a zero-distance edge: when two entries of the
\* diagram have the same coordinates, the sorted vector holds an entry of
\* distance 0 that joins them, the first entry the loop takes is of distance 0,
\* and once it is taken one tree contains the two entries.
C14_ZeroDistanceEdge ==
    (pc \notin {"entry", "sort"} /\ ~Distinct(boxes)) =>
        /\ \E k \in 1..Len(pairs_sorted_by_distance) :
            /\ pairs_sorted_by_distance[k][1] = 0
            /\ pairs_sorted_by_distance[k][2][1] = pairs_sorted_by_distance[k][2][2]
        /\ pos > 1 =>
            /\ Processed[1][1] = 0
            /\ InOneTree(trees, Processed[1][2])

\* C15. Duplicate points are not an error in exhaustive mode: for a diagram
\* with a repeated box and two or more different boxes, a call without a
\* maximum does not panic, and distance_matrix returns with a completing pair,
\* the check of line 201 having fired.
C15_DuplicatesComplete ==
    (/\ connection_pairs_max = None
     /\ ~Distinct(boxes)
     /\ Cardinality(Range(boxes)) >= 2) =>
        /\ pc # "panic"
        /\ pc \in {"returned", "done"} =>
            /\ last_pair # None
            /\ Logged("All boxes connected.")

\* C16. Exhaustive mode special-cases fewer than 2 points: for a diagram of no
\* box or of one box, distance_matrix_last_connection and part2 do not panic,
\* neither on the assertion of one tree nor on the unwrap of the pair.
C16_FewerThanTwoHandled ==
    (connection_pairs_max = None /\ Len(boxes) < 2) => pc # "panic"

\* C17. Bounded mode on degenerate input: for a diagram of no box or of one
\* box and any maximum, the loop takes no entry, the forest stays empty, no
\* completing pair is recorded, and the call runs to its end without a panic.
C17_BoundedDegenerate ==
    (connection_pairs_max # None /\ Len(boxes) < 2) =>
        /\ pairs_sorted_by_distance = <<>>
        /\ pos = 1
        /\ count_connection_pairs = 0
        /\ info_log = <<>>
        /\ trees = <<>>
        /\ last_pair = None
        /\ pc # "panic"
        /\ pc # "done" => ENABLED Next

\* distance_matrix_tree has returned for a diagram of one box and a maximum
\* that is not 0.
C17_Witness ==
    /\ pc = "done"
    /\ connection_pairs_max # None
    /\ connection_pairs_max[1] > 0
    /\ Len(boxes) = 1
    /\ trees = <<>>

\* The diagram is a chain of n boxes and the maximum is n - 1.
ChainRun(n) == boxes = Chain(n) /\ connection_pairs_max = Some(n - 1)

\* The forest is one tree of all the boxes of the diagram.
OneTreeOfAll ==
    /\ Len(trees) = 1
    /\ len(trees[1]) = Len(boxes)
    /\ Spanning(trees, boxes)

C19_ProductIsCube ==
    (pc = "done" /\ connection_pairs_max # None /\ Len(trees) = 1) =>
        answer = Some(len(trees[1]) * len(trees[1]) * len(trees[1]))

\* C19 as amended. When a bounded run ends with a single tree of size s, the
\* answer, the product of the lens of the first three trees, is s: the trees
\* that do not exist are no factor of the product.
C19_ProductIsSize ==
    (pc = "done" /\ connection_pairs_max # None /\ Len(trees) = 1) =>
        answer = Some(len(trees[1]))

\* A bounded run has ended with a single tree of 4 boxes.
C19_Witness ==
    /\ pc = "done"
    /\ connection_pairs_max # None
    /\ Len(trees) = 1
    /\ len(trees[1]) = 4
    /\ answer = Some(4)

\* C20. Scenario A: on the boxes 0,0,0 / 1,0,0 / 0,3,0 without a maximum, the
\* first entry taken creates a tree of the two boxes 0,0,0 and 1,0,0; the
\* second entry taken has distance 3, whichever of the two it is, and adds
\* 0,3,0 to that tree; no third entry is taken; the run ends without a panic
\* with one tree of 3 boxes, the second entry as the completing pair, and the
\* answer of part2 is 0.
C20_ScenarioA ==
    (boxes = ScenarioA /\ connection_pairs_max = None) =>
        /\ pc # "panic"
        /\ pc # "done" => ENABLED Next
        /\ pos <= 3
        /\ pos >= 2 =>
            /\ Processed[1] = <<1, <<<<0, 0, 0>>, <<1, 0, 0>>>>>>
            /\ info_log[1] = <<"Creating new tree with {} and {}.",
                               <<0, 0, 0>>, <<1, 0, 0>>>>
        /\ pos = 2 =>
            /\ Len(trees) = 1
            /\ len(trees[1]) = 2
            /\ TreeBoxes(trees[1]) = <<<<0, 0, 0>>, <<1, 0, 0>>>>
        /\ pos = 3 =>
            /\ Processed[2][1] = 3
            /\ info_log[2][1] = "Adding {} to tree {}."
            /\ info_log[2][2] = <<0, 3, 0>>
            /\ Len(trees) = 1
            /\ len(trees[1]) = 3
            /\ Spanning(trees, boxes)
            /\ last_pair = Some(Processed[2][2])
        /\ pc = "done" =>
            /\ pos = 3
            /\ answer = Some(0)

\* The run has ended with the pair 0,3,0 and 1,0,0 as the completing pair: of
\* the two entries of distance 3, the one whose pair[0] was in no tree.
C20_Witness ==
    /\ boxes = ScenarioA
    /\ connection_pairs_max = None
    /\ pc = "done"
    /\ last_pair = Some(<<<<0, 3, 0>>, <<1, 0, 0>>>>)
    /\ answer = Some(0)

\* A line of exactly three fields, each of one or more digits.
WellFormed(line) ==
    /\ Len(line) = 3
    /\ \A k \in 1..3 :
        /\ line[k] # <<>>
        /\ \A c \in 1..Len(line[k]) : IsDigit(line[k][c])

\* C23. Malformed lines abort before the core runs: a text with a line that
\* is not three non-negative integers joined by commas is never parsed into a
\* diagram; the parse ends in an error or a panic.
C23_MalformedAborts ==
    (pc # "parse" /\ \E k \in 1..Len(input) : ~WellFormed(input[k])) =>
        pc \in {"parse_error", "panic"}

\* The sets of indexes of three trees, or of all the trees when they are fewer.
Picks(ts) ==
    {I \in SUBSET (1..Len(ts)) : Cardinality(I) = IF Len(ts) < 3 THEN Len(ts) ELSE 3}

\* No tree outside I is larger than a tree of I.
Largest(ts, I) ==
    \A i \in I : \A j \in (1..Len(ts)) \ I : len(ts[i]) >= len(ts[j])

\* The product of the lens of the trees of I.
RECURSIVE PickProduct(_, _)
PickProduct(ts, I) ==
    IF I = {} THEN 1
    ELSE LET i == CHOOSE i \in I : TRUE
         IN  len(ts[i]) * PickProduct(ts, I \ {i})

\* C21. Finalized forest and part-1 result: the vector distance_matrix returns
\* is ordered by non-increasing len and holds the trees the loop left, each as
\* often as before, so that no tree behind the first three is larger than one
\* of them, and the answer of the bounded caller is the product of the lens of
\* three largest trees (of all the trees when they are fewer than three).
C21_FinalizedForest ==
    /\ [](pc \in {"returned", "done"} =>
            \A i, j \in 1..Len(trees) : i < j => len(trees[i]) >= len(trees[j]))
    /\ []((pc = "done" /\ connection_pairs_max # None) =>
            \E I \in Picks(trees) :
                /\ Largest(trees, I)
                /\ answer = Some(PickProduct(trees, I)))
    /\ [][pc' = "returned" =>
            /\ Len(trees') = Len(trees)
            /\ \A k \in 1..Len(trees) :
                Cardinality({i \in 1..Len(trees') : trees'[i] = trees[k]})
                    = Cardinality({i \in 1..Len(trees) : trees[i] = trees[k]})]_vars

\* The run on the ruler with the maximum 7 left trees of 2, 3, 2 and 3 boxes
\* in the order of their creation; the vector returned has the two trees of 3
\* boxes first, the tree created first standing third, and the answer is 18.
C21_Witness ==
    /\ pc = "done"
    /\ boxes = Ruler
    /\ connection_pairs_max = Some(7)
    /\ Len(trees) = 4
    /\ len(trees[1]) = 3 /\ len(trees[2]) = 3 /\ len(trees[3]) = 2 /\ len(trees[4]) = 2
    /\ trees[3].root = info_log[1][2]
    /\ answer = Some(18)

\* A disjoint-set forest over boxes: parent pointers and, for a
\* representative, the size of its set; union by size.
RECURSIVE Find(_, _)
Find(parent, x) == IF parent[x] = x THEN x ELSE Find(parent, parent[x])

MakeSet(uf, x) ==
    IF x \in DOMAIN uf.parent THEN uf
    ELSE [parent |-> uf.parent @@ (x :> x), size |-> uf.size @@ (x :> 1)]

\* Union by size of the sets of the representatives ra and rb.
Link(uf, ra, rb) ==
    LET big == IF uf.size[ra] >= uf.size[rb] THEN ra ELSE rb
        small == IF uf.size[ra] >= uf.size[rb] THEN rb ELSE ra
    IN  [parent |-> [uf.parent EXCEPT ![small] = big],
         size |-> [uf.size EXCEPT ![big] = uf.size[ra] + uf.size[rb]]]

\* The union of the two boxes of every entry, in the order of the entries:
\* both boxes are made elements, and their sets are linked unless they have
\* one representative already.
RECURSIVE UnionFrom(_, _)
UnionFrom(uf, entries) ==
    IF entries = <<>> THEN uf
    ELSE LET pair == Head(entries)[2]
             u == MakeSet(MakeSet(uf, pair[1]), pair[2])
         IN  IF Find(u.parent, pair[1]) = Find(u.parent, pair[2])
             THEN UnionFrom(u, Tail(entries))
             ELSE UnionFrom(Link(u, Find(u.parent, pair[1]), Find(u.parent, pair[2])),
                            Tail(entries))

UnionAll(entries) == UnionFrom([parent |-> <<>>, size |-> <<>>], entries)

\* C22. Equivalence with a disjoint-set forest: after every step, the
\* disjoint-set forest driven by the entries taken so far has the boxes of the
\* trees as its elements, the boxes of one tree in one set whose size is the
\* len of the tree, and for any two of its elements contains reports them in
\* one tree exactly when they have the same representative.
C22_DisjointSetEquivalence ==
    LET uf == UnionAll(Processed)
    IN  /\ DOMAIN uf.parent = Range(ForestBoxes(trees))
        /\ \A k \in 1..Len(trees) :
            /\ \A p \in Range(TreeBoxes(trees[k])) :
                Find(uf.parent, p) = Find(uf.parent, trees[k].root)
            /\ uf.size[Find(uf.parent, trees[k].root)] = len(trees[k])
        /\ \A p, q \in DOMAIN uf.parent :
            InOneTree(trees, <<p, q>>) <=> Find(uf.parent, p) = Find(uf.parent, q)

\* Two trees stand in the forest after a merge of two others, and an entry of
\* two boxes of one tree has been taken.
C22_Witness ==
    /\ pc = "loop"
    /\ Len(trees) >= 2
    /\ Logged("Merging trees {}({}) and {}({}).")
    /\ Logged("Nodes {} and {} are already in the same tree.")

\* A tree and the trees below it.
RECURSIVE Subtrees(_)
Subtrees(tree) ==
    {tree} \cup UNION {Subtrees(tree.nodes[k]) : k \in 1..Len(tree.nodes)}

\* C24. Reflexivity and membership: every tree of the forest, and every tree
\* below one, contains its root; it contains a box of the diagram exactly when
\* the box is the root of the tree or of a tree below it; and its len is the
\* number of these boxes.
C24_Membership ==
    \A k \in 1..Len(trees) : \A t \in Subtrees(trees[k]) :
        /\ contains(t, t.root)
        /\ \A p \in Range(boxes) : contains(t, p) <=> p \in Range(TreeBoxes(t))
        /\ len(t) = Len(TreeBoxes(t))
        /\ len(t) = Cardinality(Range(TreeBoxes(t)))

\* A tree of the forest has a node with nodes of its own, and another tree
\* stands beside it, whose boxes it does not contain.
C24_Witness ==
    /\ Len(trees) >= 2
    /\ \E k \in 1..Len(trees) : \E j \in 1..Len(trees[k].nodes) :
        trees[k].nodes[j].nodes # <<>>

\* C25. Bounded mode with maximum 0: with the maximum 0 the loop takes no
\* entry, counts no connection and leaves the forest empty.
C25_MaxZeroAcceptsNothing ==
    connection_pairs_max = Some(0) =>
        /\ pos = 1
        /\ count_connection_pairs = 0
        /\ trees = <<>>

\* The branches of the loop whose condition holds of the pair: same tree,
\* different trees, one box in a tree (pair[0] or pair[1]), neither in a tree.
CasesOf(ts, pair) ==
    {c \in {"same", "different", "one", "neither"} :
        \/ c = "same" /\ SameTreeCase(ts, pair)
        \/ c = "different" /\ MergeCase(ts, pair)
        \/ c = "one" /\ (FirstKnownCase(ts, pair) \/ SecondKnownCase(ts, pair))
        \/ c = "neither" /\ NeitherCase(ts, pair)}

\* C26. No edge is ever rejected: the count is the number of entries taken so
\* far, for every entry the loop comes to exactly one of the four cases
\* applies, and the step that takes an entry adds exactly 1 to the count.
C26_NoEdgeRejected ==
    /\ [](count_connection_pairs = pos - 1)
    /\ [](InLoop => Cardinality(CasesOf(trees, CurrentPair)) = 1)
    /\ [][pos' # pos =>
            /\ pos' = pos + 1
            /\ count_connection_pairs' = count_connection_pairs + 1]_vars

\* Entries of all four cases have been taken.
C26_Witness ==
    /\ pos > 4
    /\ Logged("Nodes {} and {} are already in the same tree.")
    /\ Logged("Merging trees {}({}) and {}({}).")
    /\ Logged("Adding {} to tree {}.")
    /\ Logged("Creating new tree with {} and {}.")

\* The number of messages logged with one of the formats.
CountLogged(formats) ==
    Cardinality({k \in 1..Len(info_log) : info_log[k][1] \in formats})

\* The entries taken that changed the forest: a creation, a graft or a merge.
ChangingEdges ==
    CountLogged({"Creating new tree with {} and {}.",
                 "Adding {} to tree {}.",
                 "Merging trees {}({}) and {}({})."})

\* C27. Spanning-forest accounting: in every state the number of entries taken
\* that changed the forest is the number of boxes in the forest minus the
\* number of trees; an exhaustive run over n >= 2 pairwise distinct boxes ends
\* after n - 1 such entries, every other entry taken having been one of two
\* boxes of one tree.
C27_SpanningForestAccounting ==
    /\ ChangingEdges = Len(ForestBoxes(trees)) - Len(trees)
    /\ (/\ pc = "done"
        /\ connection_pairs_max = None
        /\ Len(boxes) >= 2
        /\ Distinct(boxes)) =>
            /\ ChangingEdges = Len(boxes) - 1
            /\ count_connection_pairs - ChangingEdges =
                    CountLogged({"Nodes {} and {} are already in the same tree."})

\* An exhaustive run over four different boxes has ended after more than three
\* entries.
C27_Witness ==
    /\ pc = "done"
    /\ connection_pairs_max = None
    /\ Len(boxes) = 4
    /\ Distinct(boxes)
    /\ count_connection_pairs > 3

\* The boxes joined to one of seen by a chain of the edges.
RECURSIVE ReachableFrom(_, _)
ReachableFrom(seen, edges) ==
    LET next == seen \cup {b \in Range(boxes) :
                            \E a \in seen : <<a, b>> \in edges \/ <<b, a>> \in edges}
    IN  IF next = seen THEN seen ELSE ReachableFrom(next, edges)

\* The graph of every pair of boxes at distance d or less connects all boxes.
ConnectsAll(d) ==
    ReachableFrom({boxes[1]},
                  {<<a, b>> \in Range(boxes) \X Range(boxes) :
                        a # b /\ idistance(a, b) <= d}) = Range(boxes)

\* The smallest distance whose graph connects all boxes.
Bottleneck ==
    LET distances == {idistance(a, b) : a, b \in Range(boxes)}
    IN  CHOOSE d \in distances :
            /\ ConnectsAll(d)
            /\ \A e \in distances : e < d => ~ConnectsAll(e)

\* C28. For two or more pairwise distinct boxes, an exhaustive run records a
\* completing pair, and the distance of the entry it records is the smallest d
\* such that the pairs at distance d or less connect all boxes, in whatever
\* order the entries of equal distance were taken.
C28_BottleneckDistance ==
    (/\ connection_pairs_max = None
     /\ Len(boxes) >= 2
     /\ Distinct(boxes)) =>
        /\ pc \in {"returned", "done"} => last_pair # None
        /\ last_pair # None =>
            /\ pairs_sorted_by_distance[pos - 1] = <<Bottleneck, last_pair[1]>>
            /\ idistance(last_pair[1][1], last_pair[1][2]) = Bottleneck

\* An exhaustive run has recorded a completing pair while another entry has
\* the same distance: the pair depends on the order of the two, the distance
\* does not.
C28_Witness ==
    /\ connection_pairs_max = None
    /\ Len(boxes) >= 3
    /\ Distinct(boxes)
    /\ pc = "done"
    /\ last_pair # None
    /\ \E k \in 1..Len(pairs_sorted_by_distance) :
            /\ k # pos - 1
            /\ pairs_sorted_by_distance[k][1] = pairs_sorted_by_distance[pos - 1][1]

\* The first tree of the forest holds as many boxes as the diagram has entries.
FirstTreeFull(ts) == ts # <<>> /\ Len(TreeBoxes(ts[1])) >= Len(boxes)

\* C29. A call with a maximum also stops on full connectivity: the step after
\* which the first tree holds as many boxes as the diagram has entries, the
\* count still below the maximum, leaves the loop at that entry, the forest
\* being one tree; the call then returns that one tree with a count below the
\* maximum.  A call that logged neither stop has taken every entry.
C29_BoundedStopsOnConnectivity ==
    /\ [][(/\ InLoop
           /\ connection_pairs_max # None
           /\ FirstTreeFull(trees')
           /\ count_connection_pairs' < connection_pairs_max[1]) =>
                /\ pc' = "break"
                /\ pos' = pos + 1
                /\ Len(trees') = 1
                /\ info_log'[Len(info_log')] = <<"All boxes connected.">>]_vars
    /\ []((/\ connection_pairs_max # None
           /\ pc \in {"break", "returned", "done"}
           /\ Logged("All boxes connected.")) =>
                /\ Len(trees) = 1
                /\ FirstTreeFull(trees)
                /\ count_connection_pairs < connection_pairs_max[1])
    /\ []((/\ connection_pairs_max # None
           /\ pc \in {"break", "returned", "done"}
           /\ ~Logged("All boxes connected.")
           /\ ~Logged("Max connection pairs reached.")) =>
                pos = Len(pairs_sorted_by_distance) + 1)

\* A call with maximum 3 over three boxes has stopped after two connections,
\* all boxes in one tree.
C29_Witness ==
    /\ connection_pairs_max = Some(3)
    /\ Len(boxes) = 3
    /\ pc = "done"
    /\ count_connection_pairs = 2
    /\ Logged("All boxes connected.")
    /\ Len(trees) = 1

\* The tree holds an endpoint of the pair.
Touched(tree, pair) ==
    \E b \in Range(TreeBoxes(tree)) : b \in {pair[1], pair[2]}

\* new has the root of old and the nodes of old as its first nodes.
Kept(old, new) ==
    /\ new.root = old.root
    /\ Len(new.nodes) >= Len(old.nodes)
    /\ SubSeq(new.nodes, 1, Len(old.nodes)) = old.nodes

\* A tree without an endpoint is left as it was, one with an endpoint keeps
\* its root and its nodes.
FrameOf(old, new, pair) ==
    IF Touched(old, pair) THEN Kept(old, new) ELSE new = old

\* C30. Frame of one step: taking an entry changes no tree but those that hold
\* one of its boxes; every other tree is left as it was, the trees that stay
\* keep their order (a new tree is put last, the absorbed tree is taken out
\* and the trees behind it move up by one), and a tree that is changed keeps
\* its root and the nodes it had.
C30_FrameOfOneStep ==
    [][InLoop =>
        \/ /\ Len(trees') = Len(trees)
           /\ \A k \in 1..Len(trees) : FrameOf(trees[k], trees'[k], CurrentPair)
        \/ /\ Len(trees') = Len(trees) + 1
           /\ \A k \in 1..Len(trees) : trees'[k] = trees[k]
           /\ Range(TreeBoxes(trees'[Len(trees')])) =
                    {CurrentPair[1], CurrentPair[2]}
        \/ /\ Len(trees') = Len(trees) - 1
           /\ \E j \in 1..Len(trees) :
                /\ Touched(trees[j], CurrentPair)
                /\ \A k \in 1..(j - 1) :
                        FrameOf(trees[k], trees'[k], CurrentPair)
                /\ \A k \in j..Len(trees') :
                        FrameOf(trees[k + 1], trees'[k], CurrentPair)
                /\ \E k \in 1..Len(trees') :
                        /\ Touched(trees'[k], CurrentPair)
                        /\ trees'[k].nodes[Len(trees'[k].nodes)] = trees[j]]_vars

\* Two trees have just been merged while two more stand in the forest: the
\* last message is that of the merge and three trees are left.
C30_Witness ==
    /\ pc = "loop"
    /\ Len(trees) >= 3
    /\ info_log # <<>>
    /\ LastMessage[1] = "Merging trees {}({}) and {}({})."

====
